---------------------------- MODULE Spec2Model ----------------------------
(***************************************************************************)
(* A model of caf: the generator of chains of content addressable files    *)
(* (caf/generator.py, FileGenerator) and the verifier of such a store      *)
(* (caf/verifier.py, FileVerifier), over a small file system.              *)
(*                                                                         *)
(* Strings and paths are sequences of one-character strings, file contents *)
(* are sequences of byte values.  sha1 is modelled as a collision-free     *)
(* function: two messages have the same digest only when they are equal.   *)
(***************************************************************************)
EXTENDS Integers, Sequences, FiniteSets, TLC

(***************************************************************************)
(* Bounds of the model.                                                    *)
(***************************************************************************)
MaxRuns == 2          \* generation runs against the same root directory
MaxFiles == 2         \* largest finite max_files of a run
MaxPayload == 2       \* largest payload, in bytes, the size chooser asks for
MaxTripDigest == 40   \* digests 1 .. MaxTripDigest are mapped to paths and back

\* no run of the model starts more files than this: one more than the
\* largest finite max_files, for the runs their disk limit ends
CapFiles == MaxFiles + 1
\* the values randint(1, 100000) is drawn from
RandInts == {7}

ByteVals == {0, 1}    \* the values os.urandom draws each byte from

(***************************************************************************)
(* Constants of the program.                                               *)
(***************************************************************************)
HASH_LEN == 20
BUFFER_WRITE_SIZE == 1048576
Inf == 1000000

ROOT_HASH == [i \in 1..HASH_LEN |-> 0]
SEP == "/"
METADATA == <<".", "m", "e", "t", "a", "d", "a", "t", "a">>
ROOTS_NAME == <<"r", "o", "o", "t", "s">>
ALL_NAME == <<"a", "l", "l">>
HexDigits == <<"0", "1", "2", "3", "4", "5", "6", "7",
               "8", "9", "a", "b", "c", "d", "e", "f">>
DecDigits == <<"0", "1", "2", "3", "4", "5", "6", "7", "8", "9">>

(***************************************************************************)
(* Strings: str.split, str.join, str.strip, `in`, os.path.join.            *)
(***************************************************************************)
RECURSIVE Concat(_)
Concat(parts) ==
    IF parts = <<>> THEN <<>> ELSE Head(parts) \o Concat(Tail(parts))

\* s.split(sep) for a one-character sep: the pieces between separators,
\* empty pieces included.
RECURSIVE SplitFrom(_, _, _)
SplitFrom(s, sep, cur) ==
    IF s = <<>> THEN <<cur>>
    ELSE IF Head(s) = sep THEN <<cur>> \o SplitFrom(Tail(s), sep, <<>>)
    ELSE SplitFrom(Tail(s), sep, Append(cur, Head(s)))

\* (s is evaluated once, then split)
Split(s, sep) == CHOOSE r \in {SplitFrom(x, sep, <<>>) : x \in {s}} : TRUE

RECURSIVE LStrip(_, _)
LStrip(s, ch) ==
    IF s # <<>> /\ Head(s) = ch THEN LStrip(Tail(s), ch) ELSE s

RECURSIVE RStrip(_, _)
RStrip(s, ch) ==
    IF s # <<>> /\ s[Len(s)] = ch
    THEN RStrip(SubSeq(s, 1, Len(s) - 1), ch) ELSE s

Strip(s, ch) == RStrip(LStrip(s, ch), ch)

\* sub in s
Contains(s, sub) ==
    \E i \in 1..(Len(s) - Len(sub) + 1) : SubSeq(s, i, i + Len(sub) - 1) = sub

\* os.path.join(a, b)
Join2(a, b) ==
    IF b # <<>> /\ b[1] = SEP THEN b
    ELSE IF a = <<>> \/ a[Len(a)] = SEP THEN a \o b
    ELSE a \o <<SEP>> \o b

RECURSIVE PathJoin(_)
PathJoin(parts) ==
    IF Len(parts) = 1 THEN parts[1]
    ELSE Join2(PathJoin(SubSeq(parts, 1, Len(parts) - 1)), parts[Len(parts)])

\* str(n) for n >= 0
RECURSIVE Str(_)
Str(n) ==
    IF n < 10 THEN <<DecDigits[n + 1]>>
    ELSE Append(Str(n \div 10), DecDigits[(n % 10) + 1])

\* binascii.hexlify(bytes).decode('ascii')
RECURSIVE hexlify(_)
hexlify(bytes) ==
    IF bytes = <<>> THEN <<>>
    ELSE <<HexDigits[(Head(bytes) \div 16) + 1], HexDigits[(Head(bytes) % 16) + 1]>>
         \o hexlify(Tail(bytes))

(***************************************************************************)
(* The kernel's view of a path: the absolute path a path names when the    *)
(* process's working directory is cwd ("." and empty components dropped).  *)
(***************************************************************************)
RECURSIVE AbsFrom(_)
AbsFrom(comps) ==
    IF comps = <<>> THEN <<>>
    ELSE IF Head(comps) = <<>> \/ Head(comps) = <<".">> THEN AbsFrom(Tail(comps))
    ELSE <<SEP>> \o Head(comps) \o AbsFrom(Tail(comps))

Resolve(cwd, path) ==
    CHOOSE r \in {AbsFrom(c) : c \in {Split(Join2(cwd, path), SEP)}} : TRUE

\* the directory a path lies in, and its last component
Basename(path) == LET c == Split(path, SEP) IN c[Len(c)]
Dirname(path) == SubSeq(path, 1, Len(path) - Len(Basename(path)) - 1)

\* a directory and all its ancestors: what os.makedirs leaves existing
Ancestors(dir) ==
    {SubSeq(dir, 1, i) :
        i \in {j \in 1..Len(dir) : j = Len(dir) \/ dir[j + 1] = SEP}}

\* path lies below the directory dir
IsUnder(path, dir) ==
    /\ Len(path) > Len(dir) + 1
    /\ SubSeq(path, 1, Len(dir) + 1) = dir \o <<SEP>>

(***************************************************************************)
(* sha1.  A hash object is the message fed to it so far; update appends.   *)
(* The digest of a message of a parent hash followed by a payload is a     *)
(* number written on HASH_LEN bytes, different for different messages and  *)
(* never all zero.                                                         *)
(***************************************************************************)
RECURSIVE Pow(_, _)
Pow(b, n) == IF n = 0 THEN 1 ELSE b * Pow(b, n - 1)

NumByteVals == Cardinality(ByteVals)

\* the number of payloads shorter than n bytes
RECURSIVE PayloadsBelow(_)
PayloadsBelow(n) ==
    IF n = 0 THEN 0 ELSE PayloadsBelow(n - 1) + Pow(NumByteVals, n - 1)

RECURSIVE PayloadValue(_)
PayloadValue(pl) ==
    IF pl = <<>> THEN 0
    ELSE PayloadValue(SubSeq(pl, 1, Len(pl) - 1)) * NumByteVals + pl[Len(pl)]

PayloadIndex(pl) == PayloadsBelow(Len(pl)) + PayloadValue(pl)

\* the payloads number 0 .. PayloadCount - 1
PayloadCount == PayloadsBelow(MaxPayload + 1)

BytesToNum(bytes) == bytes[1] + bytes[2] * 256 + bytes[3] * 65536

NumToBytes(n) ==
    [i \in 1..HASH_LEN |->
        IF i = 1 THEN n % 256
        ELSE IF i = 2 THEN (n \div 256) % 256
        ELSE IF i = 3 THEN (n \div 65536) % 256
        ELSE 0]

sha1_new(data) == data
sha1_update(h, data) == h \o data
sha1_digest(h) ==
    NumToBytes(1 + BytesToNum(SubSeq(h, 1, HASH_LEN)) * PayloadCount
                 + PayloadIndex(SubSeq(h, HASH_LEN + 1, Len(h))))
sha1_hexdigest(h) == hexlify(sha1_digest(h))

\* The hash object of the roots is fed marker names, not file contents; its
\* hexdigest is written as the message itself behind a tag, so that two
\* digests are equal exactly when the messages are.
roots_hexdigest(h) == <<"sha1:">> \o h

(***************************************************************************)
(* The state: a file system, one generator process, and what the scenarios *)
(* with damage, with processes in parallel and of the address mapping add. *)
(***************************************************************************)
VARIABLES
    files,          \* regular files outside .metadata: absolute path -> bytes
    dirs,           \* the directories that exist (absolute paths)
    listings,       \* roots directories: absolute path -> os.listdir's answer
    sidecar,        \* .metadata/all files: absolute path -> content
    cwd,            \* the process's working directory
    rootdir,        \* self._rootdir, as given
    max_files,      \* self._max_files
    max_disk_usage, \* self._max_disk_usage
    buffer_size,    \* buffer_size of generate_single_file_link
    pc,             \* where the generator process is
    starting,       \* cd: the directory to return to
    temp_dir,
    files_created,
    disk_space_bytes_used,
    sha1_hash,      \* also parent_hash while generate_single_file_link runs
    file_size,
    sha1,           \* the hash object of generate_single_file_link
    amount_remaining,
    temp_filename,
    ascii_hex_basename,   \* <<>> while the name is not bound
    final_roots_hash,     \* _write_root_sha: digest of the listing read
    runs,           \* generation runs that returned
    raised,         \* generation runs that ended in an exception
    drawn,          \* the sizes the size chooser returned in this run
    chain,          \* the digests of the links this run made, in order
    report,         \* what the last verification wrote and how it ended
    flipped,        \* the file a byte of which was changed from outside, or <<>>
    deleted,        \* the file that was removed from outside, or <<>>
    inserted,       \* the file that was put into the store from outside, or <<>>
    procs,          \* the generator processes that run in parallel
    trip            \* a digest, the path made of it and the hash read back

fsVars == <<files, dirs, listings, sidecar>>
cfgVars == <<rootdir, max_files, max_disk_usage, buffer_size>>
loopVars == <<files_created, disk_space_bytes_used, sha1_hash, ascii_hex_basename>>
linkVars == <<file_size, sha1, amount_remaining, temp_filename>>
histVars == <<runs, raised, drawn, chain>>
restVars == <<deleted, inserted, procs, trip>>
vars == <<fsVars, cfgVars, loopVars, linkVars, histVars,
          cwd, pc, starting, temp_dir, final_roots_hash, report, flipped,
          deleted, inserted, procs, trip>>

\* the directory the processes are started in, and the directories below it
CWD0 == <<"/", "r">>
RootDirs == {<<".">>, <<"d">>, <<"/", "r">>}
MaxFilesChoices == (0..MaxFiles) \cup {Inf}
DiskLimits == {0, 1, HASH_LEN + 1, Inf}
BufferSizes == {1, BUFFER_WRITE_SIZE}
FileSizes == {0, HASH_LEN - 1, HASH_LEN, HASH_LEN + MaxPayload}

Put(f, k, v) == [x \in DOMAIN f \cup {k} |-> IF x = k THEN v ELSE f[x]]
Drop(f, k) == [x \in DOMAIN f \ {k} |-> f[x]]
Min(a, b) == IF a < b THEN a ELSE b

\* the values the names of a generator process have while no process runs
NoLocals ==
    /\ max_files' = 0
    /\ max_disk_usage' = 0
    /\ files_created' = 0
    /\ disk_space_bytes_used' = 0
    /\ sha1_hash' = ROOT_HASH
    /\ ascii_hex_basename' = <<>>
    /\ file_size' = 0
    /\ sha1' = <<>>
    /\ amount_remaining' = 0
    /\ temp_filename' = <<>>
    /\ final_roots_hash' = <<>>
    /\ drawn' = <<>>
    /\ chain' = <<>>
    /\ temp_dir' = starting
    /\ starting' = starting

NoReport == [outcome |-> "none", findings |-> {}, files_validated |-> 0]

\* no file of the store was changed, removed or added from outside
Undamaged == flipped = <<>> /\ deleted = <<>> /\ inserted = <<>>

\* the file system and the generator process before the first run
InitStore ==
    /\ files = <<>>
    /\ dirs = {CWD0, CWD0 \o <<SEP, "d">>}
    /\ listings = <<>>
    /\ sidecar = <<>>
    /\ cwd = CWD0
    /\ rootdir \in RootDirs
    /\ max_files = 0
    /\ max_disk_usage = 0
    /\ buffer_size \in BufferSizes
    /\ pc = "idle"
    /\ starting = CWD0
    /\ temp_dir = CWD0
    /\ files_created = 0
    /\ disk_space_bytes_used = 0
    /\ sha1_hash = ROOT_HASH
    /\ file_size = 0
    /\ sha1 = <<>>
    /\ amount_remaining = 0
    /\ temp_filename = <<>>
    /\ ascii_hex_basename = <<>>
    /\ final_roots_hash = <<>>
    /\ runs = 0
    /\ raised = 0
    /\ drawn = <<>>
    /\ chain = <<>>
    /\ report = NoReport
    /\ flipped = <<>>
    /\ deleted = <<>>
    /\ inserted = <<>>

\* the processes of a parallel generation, and one that has not started:
\* the fields are the names of generate_files and generate_single_file_link,
\* f the file the process has open (the path its inode is at now, <<>> when
\* none is open) and pos the position of its next write
ParIds == {1, 2}
NoProc ==
    [pc |-> "idle", cwd |-> CWD0, starting |-> CWD0, temp_dir |-> CWD0,
     max_files |-> 0, max_disk_usage |-> 0, files_created |-> 0,
     disk_space_bytes_used |-> 0, sha1_hash |-> ROOT_HASH,
     ascii_hex_basename |-> <<>>, file_size |-> 0, sha1 |-> <<>>,
     amount_remaining |-> 0, temp_filename |-> <<>>, f |-> <<>>, pos |-> 0,
     final_roots_hash |-> <<>>, chain |-> <<>>]

\* no digest is being mapped to a path
NoTrip == [stage |-> "none", h |-> <<>>, path |-> <<>>, hash |-> <<>>]

Init ==
    /\ InitStore
    /\ procs = [p \in ParIds |-> NoProc]
    /\ trip = NoTrip


(***************************************************************************)
(* FileGenerator.generate_files                                            *)
(***************************************************************************)
\* the paths the generator computes, relative to its working directory
ROOTS_DIR == Join2(METADATA, ROOTS_NAME)
TempPath == Resolve(cwd, temp_filename)
directory_part ==
    PathJoin(<<rootdir, SubSeq(ascii_hex_basename, 1, 2),
               SubSeq(ascii_hex_basename, 3, 4)>>)
final_filename ==
    Join2(directory_part, SubSeq(ascii_hex_basename, 5, Len(ascii_hex_basename)))
directory_name == Join2(rootdir, ROOTS_DIR)
all_filename == PathJoin(<<rootdir, METADATA, ALL_NAME>>)

\* the test of the while loop
LoopCondition ==
    /\ files_created < max_files
    /\ disk_space_bytes_used < max_disk_usage

\* generate_files up to the loop: temp_dir is the working directory the
\* process was started in, and cd() enters the root directory.
StartRun(mf, md) ==
    /\ pc = "idle"
    /\ runs + raised < MaxRuns
    /\ Resolve(cwd, rootdir) \in dirs
    /\ max_files' = mf
    /\ max_disk_usage' = md
    /\ temp_dir' = cwd
    /\ starting' = cwd
    /\ cwd' = Resolve(cwd, rootdir)
    /\ files_created' = 0
    /\ disk_space_bytes_used' = 0
    /\ sha1_hash' = ROOT_HASH
    /\ ascii_hex_basename' = <<>>
    /\ drawn' = <<>>
    /\ chain' = <<>>
    /\ pc' = "loop"
    /\ Undamaged
    /\ report' = NoReport
    /\ UNCHANGED <<fsVars, rootdir, buffer_size, linkVars, final_roots_hash,
                   runs, raised, flipped, restVars>>

\* The loop test holds: the size is drawn and generate_single_file_link
\* opens its temporary file.
BeginFile(size, r) ==
    /\ pc = "loop"
    /\ LoopCondition
    /\ files_created < CapFiles
    /\ file_size' = size
    /\ sha1' = sha1_new(sha1_hash)
    /\ amount_remaining' = size
    /\ temp_filename' =
           Join2(temp_dir, hexlify(SubSeq(sha1_hash, 1, 8)) \o Str(r))
    /\ Dirname(Resolve(cwd, temp_filename')) \in dirs
    /\ files' = Put(files, Resolve(cwd, temp_filename'), <<>>)
    /\ drawn' = Append(drawn, size)
    /\ pc' = "write_parent"
    /\ UNCHANGED <<report, flipped, restVars>>
    /\ UNCHANGED <<dirs, listings, sidecar, cfgVars, loopVars, cwd, starting,
                   temp_dir, final_roots_hash, runs, raised, chain>>

\* f.write(parent_hash) writing the sentinel as every link's parent
WriteSentinelAsParent ==
    /\ pc = "write_parent"
    /\ files' = Put(files, TempPath, files[TempPath] \o ROOT_HASH)
    /\ amount_remaining' = amount_remaining - Len(sha1_hash)
    /\ pc' = "write_chunks"
    /\ UNCHANGED <<report, flipped, restVars>>
    /\ UNCHANGED <<dirs, listings, sidecar, cfgVars, loopVars, file_size, sha1,
                   temp_filename, histVars, cwd, starting, temp_dir,
                   final_roots_hash>>

\* f.write(parent_hash)
WriteParentHash ==
    /\ pc = "write_parent"
    /\ files' = Put(files, TempPath, files[TempPath] \o sha1_hash)
    /\ amount_remaining' = amount_remaining - Len(sha1_hash)
    /\ pc' = "write_chunks"
    /\ UNCHANGED <<report, flipped, restVars>>
    /\ UNCHANGED <<dirs, listings, sidecar, cfgVars, loopVars, file_size, sha1,
                   temp_filename, histVars, cwd, starting, temp_dir,
                   final_roots_hash>>

\* sha1.update(random_data)
ChunkNotHashed(h, random_data) == h
ChunkHashed(h, random_data) == sha1_update(h, random_data)

\* one turn of the chunk loop
WriteChunk(random_data) ==
    /\ pc = "write_chunks"
    /\ amount_remaining > 0
    /\ Len(random_data) = Min(buffer_size, amount_remaining)
    /\ files' = Put(files, TempPath, files[TempPath] \o random_data)
    /\ sha1' = ChunkHashed(sha1, random_data)
    /\ amount_remaining' = amount_remaining - Len(random_data)
    /\ UNCHANGED <<report, flipped, restVars>>
    /\ UNCHANGED <<dirs, listings, sidecar, cfgVars, loopVars, file_size,
                   temp_filename, histVars, cwd, pc, starting, temp_dir,
                   final_roots_hash>>

\* generate_single_file_link returning without waiting for the chunk loop
\* to write the whole payload
CloseLinkEarly ==
    /\ pc = "write_chunks"
    /\ sha1_hash' = sha1_digest(sha1)
    /\ ascii_hex_basename' = hexlify(sha1_hash')
    /\ chain' = Append(chain, sha1_hash')
    /\ pc' = "move"
    /\ UNCHANGED <<report, flipped, restVars>>
    /\ UNCHANGED <<fsVars, cfgVars, files_created, disk_space_bytes_used,
                   linkVars, runs, raised, drawn, cwd, starting, temp_dir,
                   final_roots_hash>>

\* The chunk loop ends, the file is closed and the digest returned;
\* generate_files names the link by the digest's hex form.
CloseLink ==
    /\ pc = "write_chunks"
    /\ amount_remaining <= 0
    /\ sha1_hash' = sha1_digest(sha1)
    /\ ascii_hex_basename' = hexlify(sha1_hash')
    /\ chain' = Append(chain, sha1_hash')
    /\ pc' = "move"
    /\ UNCHANGED <<report, flipped, restVars>>
    /\ UNCHANGED <<fsVars, cfgVars, files_created, disk_space_bytes_used,
                   linkVars, runs, raised, drawn, cwd, starting, temp_dir,
                   final_roots_hash>>

\* _move_to_final_location up to the rename: the shard directories
MakeShardDirs ==
    /\ pc = "move"
    /\ \E d \in {Resolve(cwd, directory_part)} :
          dirs' = IF d \in dirs THEN dirs ELSE dirs \cup Ancestors(d)
    /\ pc' = "rename"
    /\ UNCHANGED <<report, flipped, restVars>>
    /\ UNCHANGED <<files, listings, sidecar, cfgVars, loopVars, linkVars,
                   histVars, cwd, starting, temp_dir, final_roots_hash>>

\* os.rename(temp_filename, final_filename), and the counters of the loop
RenameLink ==
    /\ pc = "rename"
    /\ Resolve(cwd, directory_part) \in dirs
    /\ files' = Put(Drop(files, TempPath), Resolve(cwd, final_filename),
                    files[TempPath])
    /\ files_created' = files_created + 1
    /\ disk_space_bytes_used' = disk_space_bytes_used + file_size
    /\ pc' = "loop"
    /\ UNCHANGED <<report, flipped, restVars>>
    /\ UNCHANGED <<dirs, listings, sidecar, cfgVars, sha1_hash,
                   ascii_hex_basename, linkVars, histVars, cwd, starting,
                   temp_dir, final_roots_hash>>

\* The loop test fails and ascii_hex_basename is bound: _write_root_sha is
\* entered and makes the roots directory.
ExitLoop ==
    /\ pc = "loop"
    /\ ~LoopCondition
    /\ ascii_hex_basename # <<>>
    /\ \E d \in {Resolve(cwd, directory_name)} :
          /\ dirs' = IF d \in dirs THEN dirs ELSE dirs \cup Ancestors(d)
          /\ listings' = IF d \in DOMAIN listings THEN listings
                         ELSE Put(listings, d, <<>>)
    /\ pc' = "write_marker"
    /\ UNCHANGED <<report, flipped, restVars>>
    /\ UNCHANGED <<files, sidecar, cfgVars, loopVars, linkVars, histVars,
                   cwd, starting, temp_dir, final_roots_hash>>

\* The loop test fails before any file was made: the argument of
\* _write_root_sha is a local name that was never bound, the read raises
\* UnboundLocalError, cd() restores the working directory on the way out.
ExitLoopUnbound ==
    /\ pc = "loop"
    /\ ~LoopCondition
    /\ ascii_hex_basename = <<>>
    /\ cwd' = starting
    /\ raised' = raised + 1
    /\ pc' = "idle"
    /\ NoLocals
    /\ UNCHANGED <<fsVars, rootdir, buffer_size, runs, report, flipped,
                   restVars>>

\* a directory's entries after name was created in it: where the new entry
\* shows among the others in a listing is the file system's choice
Inserted(entries, name) ==
    {SubSeq(entries, 1, i) \o <<name>> \o SubSeq(entries, i + 1, Len(entries)) :
        i \in 0..Len(entries)}

InListing(entries, name) == \E i \in 1..Len(entries) : entries[i] = name

\* _write_root_sha called with the name of the first link of the chain
WriteOriginMarker ==
    /\ pc = "write_marker"
    /\ LET d == Resolve(cwd, directory_name) IN
         IF InListing(listings[d], hexlify(chain[1]))
         THEN listings' = listings
         ELSE \E l \in Inserted(listings[d], hexlify(chain[1])) :
                 listings' = Put(listings, d, l)
    /\ pc' = "list_roots"
    /\ UNCHANGED <<report, flipped, restVars>>
    /\ UNCHANGED <<files, dirs, sidecar, cfgVars, loopVars, linkVars, histVars,
                   cwd, starting, temp_dir, final_roots_hash>>

\* open(os.path.join(directory_name, filename), 'w')
WriteRootMarker ==
    /\ pc = "write_marker"
    /\ LET d == Resolve(cwd, directory_name) IN
         IF InListing(listings[d], ascii_hex_basename)
         THEN listings' = listings
         ELSE \E l \in Inserted(listings[d], ascii_hex_basename) :
                 listings' = Put(listings, d, l)
    /\ pc' = "list_roots"
    /\ UNCHANGED <<report, flipped, restVars>>
    /\ UNCHANGED <<files, dirs, sidecar, cfgVars, loopVars, linkVars, histVars,
                   cwd, starting, temp_dir, final_roots_hash>>

\* os.listdir(directory_name): the order is arbitrary, and the same for
\* every listing of a directory that has not changed in between
listdir(d) == listings[d]

\* the digest of the names of a listing, fed in the listing's order
RootsDigest(names) == roots_hexdigest(Concat(names))

\* the roots hashed as they were listed before the marker was written
ListRootsBeforeMarker ==
    /\ pc = "list_roots"
    /\ final_roots_hash' =
           RootsDigest(SelectSeq(listdir(Resolve(cwd, directory_name)),
                                 LAMBDA n : n # ascii_hex_basename))
    /\ pc' = "write_all"
    /\ UNCHANGED <<report, flipped, restVars>>
    /\ UNCHANGED <<fsVars, cfgVars, loopVars, linkVars, histVars, cwd,
                   starting, temp_dir>>

\* the loop over os.listdir(directory_name)
ListRoots ==
    /\ pc = "list_roots"
    /\ final_roots_hash' = RootsDigest(listdir(Resolve(cwd, directory_name)))
    /\ pc' = "write_all"
    /\ UNCHANGED <<report, flipped, restVars>>
    /\ UNCHANGED <<fsVars, cfgVars, loopVars, linkVars, histVars, cwd,
                   starting, temp_dir>>

\* the write of .metadata/all; generate_files returns and cd() restores the
\* working directory
WriteAll ==
    /\ pc = "write_all"
    /\ sidecar' = Put(sidecar, Resolve(cwd, all_filename), final_roots_hash)
    /\ cwd' = starting
    /\ runs' = runs + 1
    /\ pc' = "idle"
    /\ NoLocals
    /\ UNCHANGED <<files, dirs, listings, rootdir, buffer_size, raised,
                   report, flipped, restVars>>

(***************************************************************************)
(* FileVerifier.verify_files.  The verifier is given the same root         *)
(* directory argument and runs in the working directory the generator was  *)
(* started in.                                                             *)
(***************************************************************************)
\* the regular files of the file system, markers and sidecars included
MarkerFiles ==
    UNION {{d \o <<SEP>> \o listings[d][i] : i \in 1..Len(listings[d])} :
              d \in DOMAIN listings}
AllFiles == DOMAIN files \cup MarkerFiles \cup DOMAIN sidecar

isfile(path) == Resolve(cwd, path) \in AllFiles

\* os.walk(top): the (root, filename) pairs of the regular files below top,
\* root being top joined with the directories walked down to the file
Walked(top) ==
    {[root |-> PathJoin(<<top>> \o SubSeq(c, 1, Len(c) - 1)),
      filename |-> c[Len(c)]] :
        c \in {Split(SubSeq(f, Len(Resolve(cwd, top)) + 2, Len(f)), SEP) :
                  f \in {g \in AllFiles : IsUnder(g, Resolve(cwd, top))}}}

\* the full paths the two walks of the verifier visit
VisitedPaths(top) ==
    {Join2(w.root, w.filename) :
        w \in {x \in Walked(top) : ~Contains(x.root, METADATA)}}

LastThree(comps) ==
    IF Len(comps) <= 3 THEN comps ELSE SubSeq(comps, Len(comps) - 2, Len(comps))

\* caf.utils.file_path_to_hash
file_path_to_hash(filename) == Strip(Concat(Split(filename, SEP)), ".")

\* _validate_checksum: TRUE when the message is written
ChecksumFails(filename) ==
    LET expected_sha1 == Concat(LastThree(Split(filename, SEP)))
        actual == sha1_hexdigest(files[Resolve(cwd, filename)])
    IN  actual # expected_sha1

\* _get_parent_file deriving a parent path from the sentinel too
get_parent_file_of_any(full_path) ==
    LET hex_sha1 == hexlify(SubSeq(files[Resolve(cwd, full_path)], 1, HASH_LEN))
    IN  PathJoin(<<rootdir, SubSeq(hex_sha1, 1, 2), SubSeq(hex_sha1, 3, 4),
                   SubSeq(hex_sha1, 5, Len(hex_sha1))>>)

\* _get_parent_file: <<>> stands for None
get_parent_file(full_path) ==
    LET binary_sha1 == SubSeq(files[Resolve(cwd, full_path)], 1, HASH_LEN)
        hex_sha1 == hexlify(binary_sha1)
    IN  IF binary_sha1 = ROOT_HASH THEN <<>>
        ELSE PathJoin(<<rootdir, SubSeq(hex_sha1, 1, 2), SubSeq(hex_sha1, 3, 4),
                        SubSeq(hex_sha1, 5, Len(hex_sha1))>>)

\* A message on stderr: its kind, the file the walk was at when it was
\* written, and the one path the message prints.
Finding(k, f, n) == [kind |-> k, file |-> f, named |-> n]

\* the messages of the first walk, parent being get_parent_file of each
\* visited path
ChecksumFindings(visited) ==
    {Finding("ChecksumMismatch", f, f) : f \in {g \in visited : ChecksumFails(g)}}

BrokenLinkFindings(visited, parent) ==
    {Finding("BrokenLink", f, parent[f]) :
        f \in {g \in visited : parent[g] # <<>> /\ ~isfile(parent[g])}}

\* _verify_referenced_files
OrphanFindings(visited, referenced, known_roots) ==
    {Finding("Orphaned", f, f) :
        f \in {g \in visited :
                  /\ g \notin referenced
                  /\ ~InListing(known_roots, file_path_to_hash(g))}}

\* _verify_known_roots
KnownRootsFindings(known_roots) ==
    LET actual == RootsDigest(known_roots)
        expected == sidecar[Resolve(cwd, all_filename)]
    IN  IF actual # expected
        THEN {Finding("RootRegistryTampered", <<>>, <<>>)} ELSE {}

\* what verify_files does in the present state: os.listdir of a missing
\* roots directory, or open of a missing .metadata/all, raises
VerifyResult ==
    IF Resolve(cwd, directory_name) \notin DOMAIN listings
    THEN [outcome |-> "raised", findings |-> {}, files_validated |-> 0]
    ELSE LET known_roots == listdir(Resolve(cwd, directory_name))
             visited == VisitedPaths(rootdir)
             parent == [f \in visited |-> get_parent_file(f)]
             referenced == {parent[f] : f \in visited}
             walk == ChecksumFindings(visited)
                        \cup BrokenLinkFindings(visited, parent)
                        \cup OrphanFindings(visited, referenced, known_roots)
         IN  IF Resolve(cwd, all_filename) \notin DOMAIN sidecar
             THEN [outcome |-> "raised", findings |-> walk,
                   files_validated |-> Cardinality(visited)]
             ELSE [outcome |-> "returned",
                   findings |-> walk \cup KnownRootsFindings(known_roots),
                   files_validated |-> Cardinality(visited)]

\* verify_files stopping at the first message it writes
VerifyResultFirstOnly ==
    LET r == VerifyResult IN
    IF r.findings = {} THEN r
    ELSE [outcome |-> "raised",
          findings |-> {CHOOSE x \in r.findings : TRUE},
          files_validated |-> 1]

VerifyFirstOnly ==
    /\ pc = "idle"
    /\ report.outcome = "none"
    /\ report' = VerifyResultFirstOnly
    /\ UNCHANGED <<fsVars, cfgVars, loopVars, linkVars, histVars, cwd, pc,
                   starting, temp_dir, final_roots_hash, flipped, restVars>>

Verify ==
    /\ pc = "idle"
    /\ report.outcome = "none"
    /\ report' = VerifyResult
    /\ UNCHANGED <<fsVars, cfgVars, loopVars, linkVars, histVars, cwd, pc,
                   starting, temp_dir, final_roots_hash, flipped, restVars>>

\* caf verify: the command echoes "All files successfully verified." and
\* exits with status 0 whenever verify_files returns
EchoesSuccess == report.outcome = "returned"

(***************************************************************************)
(* Damage from outside: one payload byte of one stored file is changed.    *)
(***************************************************************************)
FlipByte(f, i, b) ==
    /\ pc = "idle"
    /\ flipped = <<>>
    /\ runs > 0
    /\ f \in DOMAIN files
    /\ i > HASH_LEN
    /\ i <= Len(files[f])
    /\ b # files[f][i]
    /\ files' = Put(files, f, [files[f] EXCEPT ![i] = b])
    /\ flipped' = f
    /\ report' = NoReport
    /\ UNCHANGED <<dirs, listings, sidecar, cfgVars, loopVars, linkVars,
                   histVars, cwd, pc, starting, temp_dir, final_roots_hash,
                   restVars>>

Chunks == UNION {[1..n -> ByteVals] : n \in 1..(MaxPayload + 1)}

Generate ==
    \/ \E mf \in MaxFilesChoices, md \in DiskLimits : StartRun(mf, md)
    \/ \E size \in FileSizes, r \in RandInts : BeginFile(size, r)
    \/ WriteParentHash
    \/ \E random_data \in Chunks : WriteChunk(random_data)
    \/ CloseLink
    \/ MakeShardDirs
    \/ RenameLink
    \/ ExitLoop
    \/ ExitLoopUnbound
    \/ WriteRootMarker
    \/ ListRoots
    \/ WriteAll

Next == Generate \/ Verify

Spec == Init /\ [][Next]_vars

Flip ==
    \E f \in DOMAIN files, i \in 1..(HASH_LEN + MaxPayload), b \in ByteVals :
        FlipByte(f, i, b)

NextFlip == Next \/ Flip

SpecFlip == Init /\ [][NextFlip]_vars


(***************************************************************************)
(* Vocabulary of the properties.                                           *)
(***************************************************************************)
\* where the generator, started in CWD0, puts the store
GenCwd == Resolve(CWD0, rootdir)
GenRootsDir == Resolve(GenCwd, directory_name)
GenAllFile == Resolve(GenCwd, all_filename)
Markers == IF GenRootsDir \in DOMAIN listings THEN listings[GenRootsDir] ELSE <<>>

\* an absolute path of the form <store>/aa/bb/<the other hex digits>
HEX_LEN == 2 * HASH_LEN
IsSharded(p) ==
    /\ Len(p) > HEX_LEN + 3
    /\ p[Len(p) - HEX_LEN - 2] = SEP
    /\ p[Len(p) - HEX_LEN + 1] = SEP
    /\ p[Len(p) - HEX_LEN + 4] = SEP
    /\ \A i \in 1..(HEX_LEN + 2) :
          i \notin {3, 6} => p[Len(p) - HEX_LEN - 2 + i] # SEP

\* the hex digits of a sharded path, and the directory the shards lie in
Address(p) ==
    SubSeq(p, Len(p) - HEX_LEN - 1, Len(p) - HEX_LEN)
        \o SubSeq(p, Len(p) - HEX_LEN + 2, Len(p) - HEX_LEN + 3)
        \o SubSeq(p, Len(p) - HEX_LEN + 5, Len(p))
StoreOf(p) == SubSeq(p, 1, Len(p) - HEX_LEN - 3)
AddressPath(store, hex) ==
    store \o <<SEP>> \o SubSeq(hex, 1, 2) \o <<SEP>> \o SubSeq(hex, 3, 4)
          \o <<SEP>> \o SubSeq(hex, 5, Len(hex))
\* the directory the generator, started in CWD0, puts its links below
GenStore == Resolve(GenCwd, rootdir)
Header(content) == SubSeq(content, 1, HASH_LEN)
Stored == {p \in DOMAIN files : IsSharded(p)}

RECURSIVE TotalSize(_)
TotalSize(S) ==
    IF S = {} THEN 0
    ELSE LET p == CHOOSE x \in S : TRUE IN Len(files[p]) + TotalSize(S \ {p})

LoopLeft == pc \in {"write_marker", "list_roots", "write_all"}

(***************************************************************************)
(* Generation with a size chooser that returns the same size at every      *)
(* call.  The process is never held up: a step it can take is taken.       *)
(* BeginFile stops at CapFiles links: a behaviour that stays in the loop   *)
(* with both comparisons of its test unchanged by a pass is cut off there  *)
(* and stutters at the loop test, where the program would go on writing    *)
(* links.                                                                  *)
(***************************************************************************)
FixedSize == \A i \in 1..Len(drawn') : drawn'[i] = drawn'[1]

NextLive == Generate /\ FixedSize

SpecLive == Init /\ [][NextLive]_vars /\ WF_vars(NextLive)

(***************************************************************************)
(* The address mapping: a digest is made into the path of a link as        *)
(* _move_to_final_location and _get_parent_file make it, and the path is   *)
(* made into a hash again by file_path_to_hash, as the verifier does with  *)
(* the paths it walks.                                                     *)
(***************************************************************************)
TripDigests ==
    {NumToBytes(n) : n \in 1..MaxTripDigest}
        \cup {[i \in 1..HASH_LEN |-> b] : b \in {171, 255}}

InitTrip ==
    /\ InitStore
    /\ procs = [p \in ParIds |-> NoProc]
    /\ trip \in {[stage |-> "digest", h |-> d, path |-> <<>>, hash |-> <<>>] :
                    d \in TripDigests}

address_for(dir, h) ==
    LET hex == hexlify(h) IN
    PathJoin(<<dir, SubSeq(hex, 1, 2), SubSeq(hex, 3, 4),
               SubSeq(hex, 5, Len(hex))>>)

AddressFor ==
    /\ trip.stage = "digest"
    /\ trip' = [trip EXCEPT !.stage = "path",
                            !.path = address_for(rootdir, trip.h)]
    /\ UNCHANGED <<fsVars, cfgVars, loopVars, linkVars, histVars, cwd, pc,
                   starting, temp_dir, final_roots_hash, report, flipped,
                   deleted, inserted, procs>>

HashFor ==
    /\ trip.stage = "path"
    /\ trip' = [trip EXCEPT !.stage = "hash",
                            !.hash = file_path_to_hash(trip.path)]
    /\ UNCHANGED <<fsVars, cfgVars, loopVars, linkVars, histVars, cwd, pc,
                   starting, temp_dir, final_roots_hash, report, flipped,
                   deleted, inserted, procs>>

NextTrip == AddressFor \/ HashFor

SpecTrip == InitTrip /\ [][NextTrip]_vars

(***************************************************************************)
(* Damage from outside to a generated store: one stored file is removed,   *)
(* one file is put at the address of its own content hash.                 *)
(***************************************************************************)
Delete(f) ==
    /\ pc = "idle"
    /\ runs > 0
    /\ deleted = <<>>
    /\ f \in DOMAIN files
    /\ f \notin {flipped, inserted}
    /\ files' = Drop(files, f)
    /\ deleted' = f
    /\ report' = NoReport
    /\ UNCHANGED <<dirs, listings, sidecar, cfgVars, loopVars, linkVars,
                   histVars, cwd, pc, starting, temp_dir, final_roots_hash,
                   flipped, inserted, procs, trip>>

\* the i-th marker of the roots directory is removed
DeleteMarker(i) ==
    /\ pc = "idle"
    /\ runs > 0
    /\ deleted = <<>>
    /\ i \in 1..Len(Markers)
    /\ listings' = Put(listings, GenRootsDir,
                       SubSeq(Markers, 1, i - 1)
                           \o SubSeq(Markers, i + 1, Len(Markers)))
    /\ deleted' = GenRootsDir \o <<SEP>> \o Markers[i]
    /\ report' = NoReport
    /\ UNCHANGED <<files, dirs, sidecar, cfgVars, loopVars, linkVars,
                   histVars, cwd, pc, starting, temp_dir, final_roots_hash,
                   flipped, inserted, procs, trip>>

\* the digest of a stored file no stored file has
MissingHash == NumToBytes(1000)
InsertPayloads == {<<>>, <<1>>}
\* the leading 20 bytes of a file put into the store: the sentinel, the
\* hash of a file that is there, the hash of a file that is not
InsertHeaders ==
    {ROOT_HASH, MissingHash} \cup {sha1_digest(files[p]) : p \in Stored}

InsertFile(header, payload) ==
    LET content == header \o payload
        hex == sha1_hexdigest(content)
        path == AddressPath(GenStore, hex)
    IN  /\ pc = "idle"
        /\ runs > 0
        /\ inserted = <<>>
        /\ path \notin DOMAIN files
        /\ path # deleted
        /\ ~InListing(Markers, hex)
        /\ \A q \in Stored : Header(files[q]) # sha1_digest(content)
        /\ files' = Put(files, path, content)
        /\ dirs' = dirs \cup Ancestors(Dirname(path))
        /\ inserted' = path
        /\ report' = NoReport
        /\ UNCHANGED <<listings, sidecar, cfgVars, loopVars, linkVars,
                       histVars, cwd, pc, starting, temp_dir,
                       final_roots_hash, flipped, deleted, procs, trip>>

Damage ==
    \/ Flip
    \/ \E f \in DOMAIN files : Delete(f)
    \/ \E i \in 1..MaxRuns : DeleteMarker(i)
    \/ \E header \in InsertHeaders, payload \in InsertPayloads :
           InsertFile(header, payload)

\* the store is made by one generation run, then damaged and verified
FirstRun == runs + raised = 0

NextDamage ==
    \/ FirstRun /\ Generate
    \/ Verify
    \/ Damage

SpecDamage == Init /\ [][NextDamage]_vars

\* the absolute paths a message prints, the verifier running in CWD0
MessagePaths(x) == {Resolve(CWD0, x.named)}

\* the stored files that record the file at p as their parent
Children(p) ==
    {q \in Stored :
        /\ Header(files[q]) # ROOT_HASH
        /\ AddressPath(StoreOf(q), hexlify(Header(files[q]))) = p}

(***************************************************************************)
(* Generation processes in parallel.  Every process of ParIds runs         *)
(* generate_files once, started in CWD0 with the same root directory, and  *)
(* the steps of the processes interleave at the calls of the operating     *)
(* system.  A process writes through its open file: the file stays the     *)
(* same when another process opens its name again ('wb' empties it) or     *)
(* renames it, and every write goes to the writer's own position.          *)
(***************************************************************************)
ParMaxFiles == 1..MaxFiles
ParSizes == {HASH_LEN + 1}
ParRandInts == {7, 8}

\* what the one-process generator and the scenarios hold, left alone here
soloVars == <<cfgVars, loopVars, linkVars, histVars, cwd, pc, starting,
              temp_dir, final_roots_hash, report, flipped, deleted, inserted,
              trip>>

InitPar ==
    /\ Init
    /\ rootdir = <<".">>
    /\ buffer_size = BUFFER_WRITE_SIZE

\* the content of a file after data was written at position pos: a gap
\* between the end of the file and pos reads as zero bytes
WriteAt(content, pos, data) ==
    [i \in 1..(IF Len(content) > pos + Len(data) THEN Len(content)
               ELSE pos + Len(data)) |->
        IF i > pos /\ i <= pos + Len(data) THEN data[i - pos]
        ELSE IF i <= Len(content) THEN content[i]
        ELSE 0]

\* the files after f.write(data) of process p: a file that is in no
\* directory any more takes the bytes with it
Written(p, data) ==
    IF procs[p].f \in DOMAIN files
    THEN Put(files, procs[p].f, WriteAt(files[procs[p].f], procs[p].pos, data))
    ELSE files

ParTempPath(p) == Resolve(procs[p].cwd, procs[p].temp_filename)
ParShardDir(p) ==
    Resolve(procs[p].cwd,
            PathJoin(<<rootdir, SubSeq(procs[p].ascii_hex_basename, 1, 2),
                       SubSeq(procs[p].ascii_hex_basename, 3, 4)>>))
ParFinalPath(p) ==
    ParShardDir(p) \o <<SEP>>
        \o SubSeq(procs[p].ascii_hex_basename, 5, HEX_LEN)
ParRootsDir(p) == Resolve(procs[p].cwd, directory_name)

\* generate_files up to the loop
ParStartRun(p, mf) ==
    /\ procs[p].pc = "idle"
    /\ Resolve(procs[p].cwd, rootdir) \in dirs
    /\ procs' = [procs EXCEPT ![p] =
                    [@ EXCEPT !.pc = "loop",
                              !.max_files = mf,
                              !.max_disk_usage = Inf,
                              !.temp_dir = procs[p].cwd,
                              !.starting = procs[p].cwd,
                              !.cwd = Resolve(procs[p].cwd, rootdir)]]
    /\ UNCHANGED <<fsVars, soloVars>>

\* the loop test holds: the size is drawn, the temporary file opened 'wb'
ParBeginFile(p, size, r) ==
    /\ procs[p].pc = "loop"
    /\ procs[p].files_created < procs[p].max_files
    /\ procs[p].disk_space_bytes_used < procs[p].max_disk_usage
    /\ \E name \in {Join2(procs[p].temp_dir,
                          hexlify(SubSeq(procs[p].sha1_hash, 1, 8)) \o Str(r))} :
       \E path \in {Resolve(procs[p].cwd, name)} :
          /\ Dirname(path) \in dirs
          /\ files' = Put(files, path, <<>>)
          /\ procs' = [procs EXCEPT ![p] =
                          [@ EXCEPT !.pc = "write_parent",
                                    !.file_size = size,
                                    !.sha1 = sha1_new(procs[p].sha1_hash),
                                    !.amount_remaining = size,
                                    !.temp_filename = name,
                                    !.f = path,
                                    !.pos = 0]]
    /\ UNCHANGED <<dirs, listings, sidecar, soloVars>>

\* f.write(parent_hash)
ParWriteParentHash(p) ==
    /\ procs[p].pc = "write_parent"
    /\ files' = Written(p, procs[p].sha1_hash)
    /\ procs' = [procs EXCEPT ![p] =
                    [@ EXCEPT !.pc = "write_chunks",
                              !.pos = @ + HASH_LEN,
                              !.amount_remaining = @ - HASH_LEN]]
    /\ UNCHANGED <<dirs, listings, sidecar, soloVars>>

\* one turn of the chunk loop
ParWriteChunk(p, random_data) ==
    /\ procs[p].pc = "write_chunks"
    /\ procs[p].amount_remaining > 0
    /\ Len(random_data) = Min(buffer_size, procs[p].amount_remaining)
    /\ files' = Written(p, random_data)
    /\ procs' = [procs EXCEPT ![p] =
                    [@ EXCEPT !.pos = @ + Len(random_data),
                              !.amount_remaining = @ - Len(random_data),
                              !.sha1 = sha1_update(@, random_data)]]
    /\ UNCHANGED <<dirs, listings, sidecar, soloVars>>

\* the chunk loop ends, the file is closed, the link named by its digest
ParCloseLink(p) ==
    /\ procs[p].pc = "write_chunks"
    /\ procs[p].amount_remaining <= 0
    /\ \E digest \in {sha1_digest(procs[p].sha1)} :
          procs' = [procs EXCEPT ![p] =
                       [@ EXCEPT !.pc = "move",
                                 !.f = <<>>,
                                 !.sha1_hash = digest,
                                 !.ascii_hex_basename = hexlify(digest),
                                 !.chain = Append(@, digest)]]
    /\ UNCHANGED <<fsVars, soloVars>>

\* _move_to_final_location up to the rename: the shard directories (a
\* directory another process made in between is not an error)
ParMakeShardDirs(p) ==
    /\ procs[p].pc = "move"
    /\ \E d \in {ParShardDir(p)} :
          dirs' = IF d \in dirs THEN dirs ELSE dirs \cup Ancestors(d)
    /\ procs' = [procs EXCEPT ![p] = [@ EXCEPT !.pc = "rename"]]
    /\ UNCHANGED <<files, listings, sidecar, soloVars>>

\* os.rename(temp_filename, final_filename), and the counters of the loop:
\* the file goes to its new name with whoever has it open, and a file that
\* was at the new name before is no longer in any directory
ParRenameLink(p) ==
    /\ procs[p].pc = "rename"
    /\ \E src \in {ParTempPath(p)} :
       \E dst \in {ParFinalPath(p)} :
          /\ src \in DOMAIN files
          /\ files' = Put(Drop(files, src), dst, files[src])
          /\ procs' = [q \in ParIds |->
                LET moved == [procs[q] EXCEPT !.f =
                                  IF @ = src THEN dst
                                  ELSE IF @ = dst THEN <<>> ELSE @]
                IN IF q # p THEN moved
                   ELSE [moved EXCEPT
                            !.pc = "loop",
                            !.files_created = @ + 1,
                            !.disk_space_bytes_used =
                                @ + procs[p].file_size]]
    /\ UNCHANGED <<dirs, listings, sidecar, soloVars>>

\* os.rename of a temporary file that is no longer at its name raises
\* FileNotFoundError: generate_files ends, cd() restores the directory
ParRenameMissing(p) ==
    /\ procs[p].pc = "rename"
    /\ ParTempPath(p) \notin DOMAIN files
    /\ procs' = [procs EXCEPT ![p] =
                    [@ EXCEPT !.pc = "raised", !.cwd = procs[p].starting]]
    /\ UNCHANGED <<fsVars, soloVars>>

\* the loop test fails: _write_root_sha makes the roots directory
ParExitLoop(p) ==
    /\ procs[p].pc = "loop"
    /\ ~(/\ procs[p].files_created < procs[p].max_files
         /\ procs[p].disk_space_bytes_used < procs[p].max_disk_usage)
    /\ procs[p].ascii_hex_basename # <<>>
    /\ \E d \in {ParRootsDir(p)} :
          /\ dirs' = IF d \in dirs THEN dirs ELSE dirs \cup Ancestors(d)
          /\ listings' = IF d \in DOMAIN listings THEN listings
                         ELSE Put(listings, d, <<>>)
    /\ procs' = [procs EXCEPT ![p] = [@ EXCEPT !.pc = "write_marker"]]
    /\ UNCHANGED <<files, sidecar, soloVars>>

\* open(os.path.join(directory_name, filename), 'w')
ParWriteRootMarker(p) ==
    /\ procs[p].pc = "write_marker"
    /\ \E d \in {ParRootsDir(p)} :
          IF InListing(listings[d], procs[p].ascii_hex_basename)
          THEN listings' = listings
          ELSE \E l \in Inserted(listings[d], procs[p].ascii_hex_basename) :
                  listings' = Put(listings, d, l)
    /\ procs' = [procs EXCEPT ![p] = [@ EXCEPT !.pc = "list_roots"]]
    /\ UNCHANGED <<files, dirs, sidecar, soloVars>>

\* the roots hashed as they were listed before the process's own marker
ParListRootsBeforeMarker(p) ==
    /\ procs[p].pc = "list_roots"
    /\ procs' = [procs EXCEPT ![p] =
                    [@ EXCEPT !.pc = "write_all",
                              !.final_roots_hash =
                                  RootsDigest(SelectSeq(
                                      listdir(ParRootsDir(p)),
                                      LAMBDA n :
                                          n # procs[p].ascii_hex_basename))]]
    /\ UNCHANGED <<fsVars, soloVars>>

\* the loop over os.listdir(directory_name)
ParListRoots(p) ==
    /\ procs[p].pc = "list_roots"
    /\ procs' = [procs EXCEPT ![p] =
                    [@ EXCEPT !.pc = "write_all",
                              !.final_roots_hash =
                                  RootsDigest(listdir(ParRootsDir(p)))]]
    /\ UNCHANGED <<fsVars, soloVars>>

\* the write of .metadata/all; generate_files returns
ParWriteAll(p) ==
    /\ procs[p].pc = "write_all"
    /\ sidecar' = Put(sidecar, Resolve(procs[p].cwd, all_filename),
                      procs[p].final_roots_hash)
    /\ procs' = [procs EXCEPT ![p] =
                    [@ EXCEPT !.pc = "done", !.cwd = procs[p].starting]]
    /\ UNCHANGED <<files, dirs, listings, soloVars>>

NextPar ==
    \E p \in ParIds :
        \/ \E mf \in ParMaxFiles : ParStartRun(p, mf)
        \/ \E size \in ParSizes, r \in ParRandInts : ParBeginFile(p, size, r)
        \/ ParWriteParentHash(p)
        \/ \E random_data \in Chunks : ParWriteChunk(p, random_data)
        \/ ParCloseLink(p)
        \/ ParMakeShardDirs(p)
        \/ ParRenameLink(p)
        \/ ParRenameMissing(p)
        \/ ParExitLoop(p)
        \/ ParWriteRootMarker(p)
        \/ ParListRoots(p)
        \/ ParWriteAll(p)

SpecPar == InitPar /\ [][NextPar]_vars

\* the processes that have ended, by return or by an exception
ParEnded == \A p \in ParIds : procs[p].pc \in {"done", "raised"}
ParReturned == \A p \in ParIds : procs[p].pc = "done"

(***************************************************************************)
(* C1.  Every file at a sharded address has, as its address, the hex form  *)
(* of the hash of its whole content (parent hash followed by payload),     *)
(* whatever the runs, the sizes drawn and the size of the write chunks.    *)
(***************************************************************************)
C1_AddressIsContentHash ==
    \A p \in Stored : Address(p) = sha1_hexdigest(sha1_new(files[p]))

\* a link with a parent and a two-byte payload, written one byte at a time
C1_Witness ==
    /\ buffer_size = 1
    /\ \E p \in Stored :
          /\ Len(files[p]) = HASH_LEN + 2
          /\ Header(files[p]) # ROOT_HASH

(***************************************************************************)
(* C2.  Every stored file whose leading 20 bytes are not the sentinel has  *)
(* its parent in the store; the first link of a run carries the sentinel   *)
(* and every later one the hash of the link made just before it.           *)
(***************************************************************************)
C2_ParentsExist ==
    /\ \A p \in Stored :
          Header(files[p]) # ROOT_HASH =>
              AddressPath(StoreOf(p), hexlify(Header(files[p]))) \in Stored
    /\ \A i \in 1..files_created :
          LET p == AddressPath(GenStore, hexlify(chain[i])) IN
          /\ p \in Stored
          /\ Header(files[p]) = IF i = 1 THEN ROOT_HASH ELSE chain[i - 1]

\* the second run has published two links, the second upon the first
C2_Witness ==
    /\ runs = 1
    /\ files_created = 2
    /\ Cardinality(Stored) >= 3

(***************************************************************************)
(* C3.  Each generation run adds exactly one new RootMarker, named by the  *)
(* hex hash of its last link, and leaves exactly one link no other file    *)
(* names as parent: after N runs there are N markers and N such links.     *)
(***************************************************************************)
Unreferenced ==
    {p \in Stored :
        ~\E q \in Stored :
            /\ Header(files[q]) # ROOT_HASH
            /\ AddressPath(StoreOf(q), hexlify(Header(files[q]))) = p}

C3_OneRootPerRun ==
    pc = "idle" =>
        /\ Len(Markers) = runs
        /\ Cardinality(Unreferenced) = runs
        /\ \A i \in 1..Len(Markers) :
              AddressPath(GenStore, Markers[i]) \in Unreferenced

(***************************************************************************)
(* C4.  With one writer, once register_root has returned the digest of the *)
(* roots directory's listing equals the content of .metadata/all, and the  *)
(* verifier's aggregate check writes no RootRegistryTampered.              *)
(***************************************************************************)
C4_AggregateMatchesListing ==
    (pc = "idle" /\ runs > 0) =>
        /\ RootsDigest(listdir(GenRootsDir)) = sidecar[GenAllFile]
        /\ Finding("RootRegistryTampered", <<>>, <<>>) \notin report.findings

\* two registrations were made and the verifier has run after the second
C4_Witness ==
    /\ pc = "idle"
    /\ runs = 2
    /\ Len(Markers) = 2
    /\ report.outcome = "returned"

(***************************************************************************)
(* C5.  On a store made only by generation runs that returned, the         *)
(* verifier returns without a finding, whatever root directory path the    *)
(* generator and the verifier were given.                                  *)
(***************************************************************************)
C5_CleanStoreNoFinding ==
    (report.outcome # "none" /\ runs > 0 /\ flipped = <<>>) =>
        /\ report.outcome = "returned"
        /\ report.findings = {}

(***************************************************************************)
(* C6.  A first run with max_files = n, no disk limit and one fixed size s *)
(* leaves exactly n files outside .metadata, of n * s bytes in all.        *)
(***************************************************************************)
AllSame(sizes) == \A i \in 1..Len(sizes) : sizes[i] = sizes[1]

C6_CountAndUsage ==
    (/\ pc = "write_all"
     /\ runs = 0
     /\ max_files # Inf
     /\ max_disk_usage = Inf
     /\ AllSame(drawn)) =>
        /\ Cardinality(DOMAIN files) = max_files
        /\ TotalSize(DOMAIN files) = max_files * drawn[1]

(***************************************************************************)
(* C7.  The stopping conditions are tested before each file is started:    *)
(* files_created never exceeds max_files, and when the loop is left the    *)
(* bytes written exceed max_disk_usage by less than the size of the last   *)
(* file made.                                                              *)
(***************************************************************************)
C7_SoftDiskLimit ==
    /\ files_created <= max_files
    /\ (LoopLeft /\ runs = 0 /\ max_disk_usage # Inf) =>
          TotalSize(DOMAIN files) - max_disk_usage
              < Len(files[AddressPath(GenStore, ascii_hex_basename)])

(***************************************************************************)
(* C8.  Every generated file is as long as the size drawn for it, so       *)
(* disk_space_bytes_used is the total size of the files written.           *)
(***************************************************************************)
C8_LengthIsDrawnSize ==
    /\ pc = "rename" => Len(files[TempPath]) = file_size
    /\ (pc = "loop" /\ runs = 0) =>
          disk_space_bytes_used = TotalSize(DOMAIN files)

(***************************************************************************)
(* C9.  No partly written file is ever at a sharded address: the content   *)
(* at such an address changes only in the rename step, which moves there   *)
(* a temporary file written up to its last byte, into a shard directory    *)
(* that exists.                                                            *)
(***************************************************************************)
C9_PublishedByRenameOnly ==
    [][\A p \in DOMAIN files' :
          (IsSharded(p) /\ (p \notin DOMAIN files \/ files'[p] # files[p])) =>
              /\ pc = "rename"
              /\ amount_remaining <= 0
              /\ ~IsSharded(TempPath)
              /\ TempPath \in DOMAIN files
              /\ TempPath \notin DOMAIN files'
              /\ files'[p] = files[TempPath]
              /\ Dirname(p) \in dirs]_vars

\* between two chunk writes of a link, its shard directory existing already
C9_Witness ==
    /\ pc = "write_chunks"
    /\ amount_remaining = 1
    /\ Len(files[TempPath]) = HASH_LEN + 1
    /\ Stored # {}

(***************************************************************************)
(* C10.  After one payload byte of one stored file that is no recorded     *)
(* root was changed in a generated store, the verifier writes exactly one  *)
(* finding, a ChecksumMismatch for that file.                              *)
(***************************************************************************)
C10_OneMismatchOnly ==
    (/\ flipped # <<>>
     /\ report.outcome # "none"
     /\ ~InListing(Markers, Address(flipped))) =>
        /\ report.outcome = "returned"
        /\ Cardinality(report.findings) = 1
        /\ \A x \in report.findings :
              /\ x.kind = "ChecksumMismatch"
              /\ Resolve(CWD0, x.file) = flipped

(***************************************************************************)
(* C11.  After a file that another file records as its parent, and that    *)
(* is no recorded root, was removed from a generated store, the verifier   *)
(* writes for every such child a BrokenLink message that names the child   *)
(* and the address that is missing.                                        *)
(***************************************************************************)
OnlyDeleted == deleted # <<>> /\ flipped = <<>> /\ inserted = <<>>

C11_BrokenLinkNamesBoth ==
    (/\ OnlyDeleted
     /\ report.outcome # "none"
     /\ IsSharded(deleted)
     /\ ~InListing(Markers, Address(deleted))) =>
        \A q \in Children(deleted) :
            \E x \in report.findings :
                /\ x.kind = "BrokenLink"
                /\ q \in MessagePaths(x)
                /\ deleted \in MessagePaths(x)

(***************************************************************************)
(* C12.  After one file was put into a generated store at the address of   *)
(* its own content hash, no file naming it as parent and no marker naming  *)
(* it, the verifier writes exactly one finding, Orphaned for that file,    *)
(* whether the file's leading 20 bytes are the sentinel, the hash of a     *)
(* stored file or the hash of no stored file.                              *)
(***************************************************************************)
OnlyInserted == inserted # <<>> /\ flipped = <<>> /\ deleted = <<>>

C12_OrphanedOnly ==
    (OnlyInserted /\ report.outcome # "none") =>
        /\ report.outcome = "returned"
        /\ Cardinality(report.findings) = 1
        /\ \A x \in report.findings :
              /\ x.kind = "Orphaned"
              /\ MessagePaths(x) = {inserted}

(***************************************************************************)
(* C13.  As stated: for every stored file whose leading 20 bytes are the   *)
(* sentinel and whose address is not in the roots listing, the verifier    *)
(* writes UnregisteredRoot for that file.                                  *)
(***************************************************************************)
\* the stored files that begin with the sentinel and that no marker names
UnlistedOrigins ==
    {p \in Stored :
        Header(files[p]) = ROOT_HASH /\ ~InListing(Markers, Address(p))}

C13_UnregisteredRootReported ==
    report.outcome = "returned" =>
        \A p \in UnlistedOrigins :
            \E x \in report.findings :
                x.kind = "UnregisteredRoot" /\ p \in MessagePaths(x)

(***************************************************************************)
(* C13, amended.  For a file that begins with the sentinel the verifier    *)
(* derives no parent and looks nothing up in the roots listing: it never   *)
(* writes UnregisteredRoot, never writes BrokenLink for such a file, and   *)
(* writes Orphaned for one no marker names exactly when no stored file     *)
(* records it as parent.                                                   *)
(***************************************************************************)
C13_SentinelMeansNoParent ==
    /\ \A x \in report.findings :
          /\ x.kind # "UnregisteredRoot"
          /\ x.kind = "BrokenLink" =>
                Header(files[Resolve(CWD0, x.file)]) # ROOT_HASH
    /\ report.outcome = "returned" =>
          \A p \in UnlistedOrigins :
              (Children(p) = {}) <=>
                  (\E x \in report.findings :
                      x.kind = "Orphaned" /\ p \in MessagePaths(x))

\* a verified store of a chain of two links: the first begins with the
\* sentinel, no marker names it, and nothing is written about it
C13_Witness ==
    /\ report.outcome = "returned"
    /\ Undamaged
    /\ \E p \in UnlistedOrigins :
          /\ Children(p) # {}
          /\ \A x \in report.findings : Resolve(CWD0, x.file) # p

(***************************************************************************)
(* C14.  As stated: after a generation run that returned, every stored     *)
(* file that begins with the sentinel has a RootMarker named by its own    *)
(* hex address, whatever the length of the chain.                          *)
(***************************************************************************)
C14_OriginHasMarker ==
    (pc = "idle" /\ runs > 0) =>
        \A p \in Stored :
            Header(files[p]) = ROOT_HASH => InListing(Markers, Address(p))

(***************************************************************************)
(* C14, amended.  The marker a run writes is named by the hex address of   *)
(* the last link of its chain, which is stored; every marker names a       *)
(* stored link; and in a first run of two links no marker names the first  *)
(* link, the one that begins with the sentinel.                            *)
(***************************************************************************)
Tip == chain[Len(chain)]

C14_TipHasMarker ==
    /\ pc \in {"list_roots", "write_all"} =>
          /\ InListing(Markers, hexlify(Tip))
          /\ AddressPath(GenStore, hexlify(Tip)) \in Stored
          /\ ascii_hex_basename = hexlify(Tip)
    /\ \A i \in 1..Len(Markers) : AddressPath(GenStore, Markers[i]) \in Stored
    /\ (pc = "write_all" /\ runs = 0 /\ Len(chain) = 2) =>
          /\ Header(files[AddressPath(GenStore, hexlify(chain[1]))]) = ROOT_HASH
          /\ ~InListing(Markers, hexlify(chain[1]))

\* a second run, of two links, has written its marker
C14_Witness ==
    /\ pc = "write_all"
    /\ runs = 1
    /\ Len(chain) = 2
    /\ Len(Markers) = 2
    /\ ~InListing(Markers, hexlify(chain[1]))

(***************************************************************************)
(* C15.  A verification that ran to its end reports success if and only    *)
(* if it wrote no finding: after a ChecksumMismatch, BrokenLink, Orphaned  *)
(* or RootRegistryTampered message the command does not report success.    *)
(***************************************************************************)
C15_PassIffNoFinding ==
    report.outcome = "returned" => (EchoesSuccess <=> report.findings = {})

(***************************************************************************)
(* C16.  A message never ends the verification.  Whenever the roots        *)
(* directory and .metadata/all can be read, a verifier pass over a store   *)
(* with any faults returns, has visited every file below the root          *)
(* directory outside .metadata, has written ChecksumMismatch for every     *)
(* file whose content hash is not its address, BrokenLink for every file   *)
(* whose parent is missing and Orphaned for every file that no file        *)
(* records as parent and no marker names, and has made the aggregate       *)
(* check of the roots.                                                     *)
(***************************************************************************)
\* what the verifier, run in CWD0, reads
VerStore == Resolve(CWD0, rootdir)
VerRootsDir == Resolve(CWD0, directory_name)
VerAllFile == Resolve(CWD0, all_filename)
CanRead == VerRootsDir \in DOMAIN listings /\ VerAllFile \in DOMAIN sidecar
UnderRoot == {p \in DOMAIN files : IsUnder(p, VerStore)}
ParentPath(p) == AddressPath(StoreOf(p), hexlify(Header(files[p])))
Wrote(kind, p) ==
    \E x \in report.findings : x.kind = kind /\ p \in MessagePaths(x)

C16_EveryFaultReported ==
    (report.outcome # "none" /\ CanRead) =>
        /\ report.outcome = "returned"
        /\ report.files_validated = Cardinality(UnderRoot)
        /\ \A p \in UnderRoot :
              /\ Address(p) # sha1_hexdigest(files[p]) =>
                    Wrote("ChecksumMismatch", p)
              /\ (/\ Header(files[p]) # ROOT_HASH
                  /\ ParentPath(p) \notin DOMAIN files) =>
                    \E x \in report.findings :
                        /\ x.kind = "BrokenLink"
                        /\ Resolve(CWD0, x.file) = p
                        /\ ParentPath(p) \in MessagePaths(x)
              /\ (/\ Children(p) = {}
                  /\ ~InListing(listings[VerRootsDir], Address(p))) =>
                    Wrote("Orphaned", p)
        /\ (RootsDigest(listings[VerRootsDir]) # sidecar[VerAllFile]) <=>
              (Finding("RootRegistryTampered", <<>>, <<>>) \in report.findings)

\* a store with a flipped byte, a removed marker and an inserted file whose
\* parent is missing: all four kinds of message were written in one pass
C16_Witness ==
    /\ flipped # <<>>
    /\ deleted # <<>>
    /\ ~IsSharded(deleted)
    /\ inserted # <<>>
    /\ report.outcome = "returned"
    /\ {x.kind : x \in report.findings} =
           {"ChecksumMismatch", "BrokenLink", "Orphaned", "RootRegistryTampered"}
    /\ report.files_validated >= 3

(***************************************************************************)
(* C19.  For every 20-byte digest h and every root directory, the path     *)
(* made of h (the root directory, the first 2 hex digits, the next 2, the  *)
(* other 36) is made by file_path_to_hash into the hex form of h again.    *)
(***************************************************************************)
C19_RoundTrip ==
    trip.stage = "hash" => trip.hash = hexlify(trip.h)

(***************************************************************************)
(* C20.  A run with a finite max_files or a finite max_disk_usage that is  *)
(* at the test of its loop leaves the loop at some later time, for the     *)
(* registration of its root or by an exception, whatever size the size     *)
(* chooser returns, 0 included.                                            *)
(***************************************************************************)
FiniteLimit == max_files # Inf \/ max_disk_usage # Inf

C17_AggregateOfOwnListing ==
    ParReturned =>
        /\ \A p \in ParIds :
              InListing(listings[VerRootsDir], procs[p].ascii_hex_basename)
        /\ sidecar[VerAllFile] \in
               {RootsDigest(listings[VerRootsDir])} \cup
               {RootsDigest(SelectSeq(listings[VerRootsDir],
                                      LAMBDA n : n # procs[p].ascii_hex_basename)) :
                    p \in ParIds}

\* both have returned, the two markers are there, and the aggregate is the
\* digest of a listing of one of them only
C17_Witness ==
    /\ ParReturned
    /\ procs[1].ascii_hex_basename # procs[2].ascii_hex_basename
    /\ \A p \in ParIds :
          InListing(listings[VerRootsDir], procs[p].ascii_hex_basename)
    /\ \E p \in ParIds :
          sidecar[VerAllFile] = RootsDigest(<<procs[p].ascii_hex_basename>>)
    /\ sidecar[VerAllFile] # RootsDigest(listings[VerRootsDir])

(***************************************************************************)
(* C18.  Two processes generate in parallel below the same root directory: *)
(* once both have ended, whatever the order of their steps, every stored   *)
(* file has the hash of its content as its address, every stored file      *)
(* with a parent has its parent in the store, and every link a process     *)
(* counted in files_created is in the store at the address of its digest.  *)
(***************************************************************************)
C18_ParallelRunsKeepTheStore ==
    ParEnded =>
        /\ \A f \in Stored :
              /\ Len(files[f]) >= HASH_LEN
              /\ Address(f) = sha1_hexdigest(sha1_new(files[f]))
              /\ Header(files[f]) # ROOT_HASH => ParentPath(f) \in Stored
        /\ \A p \in ParIds : \A i \in 1..procs[p].files_created :
              AddressPath(VerStore, hexlify(procs[p].chain[i])) \in Stored

(***************************************************************************)
(* C22.  Whenever the test of the generation loop fails the run goes on    *)
(* to the registration of its root, also when it fails before the first    *)
(* file (max_files = 0 or max_disk_usage = 0): no run ends in an exception *)
(* at the exit of the loop.                                                *)
(***************************************************************************)
C22_EveryExitRegisters ==
    [][(pc = "loop" /\ ~LoopCondition /\ pc' # "loop")
           => pc' = "write_marker"]_vars

(***************************************************************************)
(* C24.  In every state every RootMarker names a file that is in the       *)
(* store and that no stored file names as its parent.                      *)
(***************************************************************************)
C24_MarkerNamesUnreferencedFile ==
    \A i \in 1..Len(Markers) :
        AddressPath(GenStore, Markers[i]) \in Unreferenced

(***************************************************************************)
(* C23.  The aggregate digest of the roots depends on the set of marker    *)
(* names only: when a run has returned and .metadata/all holds the digest  *)
(* of the listing it read, the digest recomputed from the same names in    *)
(* any other order of listing is the same value.                           *)
(***************************************************************************)
C23_DigestIgnoresOrder ==
    (pc = "idle" /\ runs > 0 /\ Undamaged /\ GenAllFile \in DOMAIN sidecar) =>
        \A l \in [1..Len(Markers) -> {Markers[i] : i \in 1..Len(Markers)}] :
            {l[i] : i \in 1..Len(l)} = {Markers[i] : i \in 1..Len(Markers)}
                => RootsDigest(l) = sidecar[GenAllFile]

(***************************************************************************)
(* C25.  While a generation run is in progress every regular file a walk   *)
(* of the root directory sees outside .metadata is a published link, at a  *)
(* sharded address that is the hash of its content: the temporary file is  *)
(* not below the root directory, also when the process was started in it.  *)
(***************************************************************************)
C25_WalkSeesOnlyPublishedLinks ==
    pc # "idle" =>
        \A f \in UnderRoot :
            /\ IsSharded(f)
            /\ Len(files[f]) >= HASH_LEN
            /\ Address(f) = sha1_hexdigest(sha1_new(files[f]))

(***************************************************************************)
(* C26.  After one link of the only chain of a store, a chain of at least  *)
(* three links, was deleted, the verifier writes exactly these findings:   *)
(* for a link M with a parent P and a child C, the broken link of C and    *)
(* Orphaned for P; for the first link of the chain, the broken link of     *)
(* its child alone.                                                        *)
(***************************************************************************)
C26_MidChainDeletion ==
    (/\ OnlyDeleted
     /\ report.outcome # "none"
     /\ runs = 1
     /\ IsSharded(deleted)
     /\ ~InListing(Markers, Address(deleted))
     /\ Cardinality(Stored) >= 2) =>
        LET origin_left == \E p \in Stored : Header(files[p]) = ROOT_HASH IN
        /\ report.outcome = "returned"
        /\ {<<x.kind, Resolve(CWD0, x.file)>> : x \in report.findings} =
               {<<"BrokenLink", c>> : c \in Children(deleted)}
               \cup (IF origin_left
                     THEN {<<"Orphaned", p>> :
                             p \in {q \in Stored :
                                       /\ Children(q) = {}
                                       /\ ~InListing(Markers, Address(q))}}
                     ELSE {})
        /\ Cardinality(report.findings) = IF origin_left THEN 2 ELSE 1

(***************************************************************************)
(* Removal of a whole chain: from a store two runs have made, the marker   *)
(* of one chain and every file of that chain are deleted, .metadata/all    *)
(* being left as it is.  The chain shares no file with the other chain.    *)
(***************************************************************************)
RECURSIVE ChainFiles(_)
ChainFiles(p) ==
    IF p \notin Stored THEN {}
    ELSE IF Header(files[p]) = ROOT_HASH THEN {p}
    ELSE {p} \cup ChainFiles(ParentPath(p))

DeleteChain(i) ==
    /\ pc = "idle"
    /\ Undamaged
    /\ Len(Markers) >= 2
    /\ i \in 1..Len(Markers)
    /\ \E gone \in {ChainFiles(AddressPath(GenStore, Markers[i]))} :
          /\ gone # {}
          /\ \A j \in 1..Len(Markers) :
                j # i =>
                    gone \cap ChainFiles(AddressPath(GenStore, Markers[j])) = {}
          /\ files' = [x \in DOMAIN files \ gone |-> files[x]]
    /\ listings' = Put(listings, GenRootsDir,
                       SubSeq(Markers, 1, i - 1)
                           \o SubSeq(Markers, i + 1, Len(Markers)))
    /\ deleted' = GenRootsDir \o <<SEP>> \o Markers[i]
    /\ report' = NoReport
    /\ UNCHANGED <<dirs, sidecar, cfgVars, loopVars, linkVars, histVars, cwd,
                   pc, starting, temp_dir, final_roots_hash, flipped, inserted,
                   procs, trip>>

NextChains ==
    \/ Generate
    \/ Verify
    \/ \E i \in 1..MaxRuns : DeleteChain(i)

SpecChains == Init /\ [][NextChains]_vars

(***************************************************************************)
(* C21.  After one whole chain of a store of two chains was removed with   *)
(* its marker, the verifier returns with RootRegistryTampered as its only  *)
(* finding; and whenever the verifier writes RootRegistryTampered the      *)
(* digest of the roots listing differs from the content of .metadata/all.  *)
(***************************************************************************)
C21_ChainRemovalDetected ==
    /\ (deleted # <<>> /\ report.outcome # "none") =>
          /\ report.outcome = "returned"
          /\ report.findings = {Finding("RootRegistryTampered", <<>>, <<>>)}
    /\ (Finding("RootRegistryTampered", <<>>, <<>>) \in report.findings) =>
          RootsDigest(listings[VerRootsDir]) # sidecar[VerAllFile]

=============================================================================
